---- MODULE Spec2Model ----
(***************************************************************************)
(* chi_server: Server.Run / WaitForSignal (process lifecycle) and the      *)
(* CorrelationID / RequestLogger middleware (request pipeline).            *)
(*                                                                         *)
(* Two specifications over one set of variables:                           *)
(*   Spec, FairSpec  the lifecycle: Run's select between ctx.Done() and    *)
(*                   errCh, the background ListenAndServe goroutine, the   *)
(*                   Shutdown call with its 5 second context, the signal   *)
(*                   watcher goroutine of WaitForSignal;                   *)
(*   SpecReq         two requests going concurrently through a handler     *)
(*                   chain built from CorrelationID, Recoverer and         *)
(*                   RequestLogger.                                        *)
(* net/http, chi's WrapResponseWriter and Recoverer, and uuid are library  *)
(* code: they are modelled by their documented behaviour at the places     *)
(* where the repository calls them.                                        *)
(***************************************************************************)
EXTENDS Integers, Sequences, FiniteSets, TLC

\* ------------------------------------------------------------------ bounds
\* Run may be called this many times on one Server.
MaxRuns == 2
\* Requests that can be in flight on the listener at once.
MaxConns == 2
\* Operating-system signals delivered to the process.
MaxSignals == 2

\* --------------------------------------------------------- program constants
\* context.WithTimeout(context.Background(), 5*time.Second)
ShutdownTimeout == 5
\* errCh := make(chan error, 1)
ErrChCap == 1
\* c := make(chan os.Signal, 1)
SigChCap == 1

VARIABLES
    \* ---- lifecycle
    ctxSource,   \* who cancels Run's ctx: "signal" (WaitForSignal) or "caller"
    ctxDone,     \* ctx.Done() is closed
    sigCh,       \* WaitForSignal's channel c (buffered)
    sigCount,    \* signals the process has received so far
    watcherPc,   \* WaitForSignal's goroutine: "recv", "cancel", "done"
    runCount,    \* number of Run calls so far; the current call's index
    runPc,       \* Run: "idle", "select", "shutdown", "sd_close", "sd_poll", "sd_wait", "returned"
    runResult,   \* the error Run returned (<<>> is nil)
    errCh,       \* errCh of each Run call (buffered)
    bgPc,        \* the goroutine of each Run call
    bgErr,       \* what ListenAndServe returned in that goroutine
    inShutdown,  \* http.Server.inShutdown
    lnOpen,      \* the listener opened by each goroutine is open
    active,      \* requests in flight on accepted connections
    elapsed,     \* time units since shutCtx was created
    shutdownCalls \* per call of Run, the calls of httpServer.Shutdown it made

lifeVars == <<ctxSource, ctxDone, sigCh, sigCount, watcherPc, runCount, runPc,
              runResult, errCh, bgPc, bgErr, inShutdown, lnOpen, active,
              elapsed, shutdownCalls>>

\* ---- request pipeline
VARIABLES
    CorrelationIDHeader, \* the package variable naming the header
    chain,       \* the middleware stages in front of the handler, outermost first
    issued,      \* the tokens uuid.New() has returned so far
    log,         \* the records the shared logger has emitted, in order
    req          \* the state of each request

reqVars == <<CorrelationIDHeader, chain, issued, log, req>>

vars == <<lifeVars, reqVars>>

\* --------------------------------------------------------------- errors
\* An error is the chain of its messages, outermost first; nil is <<>>.
Nil == <<>>
ErrServerClosed == <<"http: Server closed">>
BindErr == <<"listen: address invalid or in use">>
AcceptErr == <<"accept: listener failed">>
DeadlineExceeded == <<"context deadline exceeded">>
\* fmt.Errorf("<context>: %w", err)
Wrap(context, err) == <<context>> \o err

Runs == 1..MaxRuns
Signals == {"SIGINT", "SIGTERM"}

\* ------------------------------------------------------------------ Init
InitLife ==
    /\ ctxSource \in {"signal", "caller"}
    /\ ctxDone = FALSE
    /\ sigCh = <<>>
    /\ sigCount = 0
    /\ watcherPc = "recv"
    /\ runCount = 0
    /\ runPc = "idle"
    /\ runResult = Nil
    /\ errCh = [i \in Runs |-> <<>>]
    /\ bgPc = [i \in Runs |-> "unborn"]
    /\ bgErr = [i \in Runs |-> Nil]
    /\ inShutdown = FALSE
    /\ lnOpen = [i \in Runs |-> FALSE]
    /\ active = 0
    /\ elapsed = 0
    /\ shutdownCalls = [i \in Runs |-> 0]

\* ------------------------------------------------- WaitForSignal, the caller
\* signal.Notify(c, os.Interrupt, syscall.SIGTERM): the runtime sends each
\* signal to c without blocking; a signal that finds c full is dropped.
Signal(s) ==
    /\ ctxSource = "signal"
    /\ sigCount < MaxSignals
    /\ sigCount' = sigCount + 1
    /\ sigCh' = IF Len(sigCh) < SigChCap THEN Append(sigCh, s) ELSE sigCh
    /\ UNCHANGED reqVars
    /\ UNCHANGED <<ctxSource, ctxDone, watcherPc, runCount, runPc, runResult,
                   errCh, bgPc, bgErr, inShutdown, lnOpen, active, elapsed,
                   shutdownCalls>>

\* go func() { <-c
WatcherRecv ==
    /\ ctxSource = "signal"
    /\ watcherPc = "recv"
    /\ Len(sigCh) > 0
    /\ sigCh' = Tail(sigCh)
    /\ watcherPc' = "cancel"
    /\ UNCHANGED reqVars
    /\ UNCHANGED <<ctxSource, ctxDone, sigCount, runCount, runPc, runResult,
                   errCh, bgPc, bgErr, inShutdown, lnOpen, active, elapsed,
                   shutdownCalls>>

\* Faulty variant: the goroutine ends without calling cancel.
WatcherCancel_Forgotten ==
    /\ watcherPc = "cancel"
    /\ watcherPc' = "done"
    /\ UNCHANGED reqVars
    /\ UNCHANGED <<ctxSource, ctxDone, sigCh, sigCount, runCount, runPc,
                   runResult, errCh, bgPc, bgErr, inShutdown, lnOpen, active,
                   elapsed, shutdownCalls>>

\* cancel() }()
WatcherCancel ==
    /\ watcherPc = "cancel"
    /\ ctxDone' = TRUE
    /\ watcherPc' = "done"
    /\ UNCHANGED reqVars
    /\ UNCHANGED <<ctxSource, sigCh, sigCount, runCount, runPc, runResult,
                   errCh, bgPc, bgErr, inShutdown, lnOpen, active, elapsed,
                   shutdownCalls>>

\* A ctx the caller made itself (context.WithCancel, context.WithTimeout):
\* the caller cancels it, or its deadline passes, at any time.
CallerCancel ==
    /\ ctxSource = "caller"
    /\ ~ctxDone
    /\ ctxDone' = TRUE
    /\ UNCHANGED reqVars
    /\ UNCHANGED <<ctxSource, sigCh, sigCount, watcherPc, runCount, runPc,
                   runResult, errCh, bgPc, bgErr, inShutdown, lnOpen, active,
                   elapsed, shutdownCalls>>

\* ------------------------------------------------------------ Server.Run
\* Run is called (again after it returned): errCh is made and the goroutine is
\* started. A caller that makes its own contexts may pass a new one.
RunCall ==
    /\ runPc \in {"idle", "returned"}
    /\ runCount < MaxRuns
    /\ runCount' = runCount + 1
    /\ runPc' = "select"
    /\ runResult' = Nil
    /\ errCh' = [errCh EXCEPT ![runCount + 1] = <<>>]
    /\ bgPc' = [bgPc EXCEPT ![runCount + 1] = "las_check"]
    /\ \E c \in (IF ctxSource = "caller" /\ runPc = "returned" THEN {ctxDone, FALSE} ELSE {ctxDone}) :
           ctxDone' = c
    /\ elapsed' = 0
    /\ UNCHANGED reqVars
    /\ UNCHANGED <<ctxSource, sigCh, sigCount, watcherPc, bgErr, inShutdown,
                   lnOpen, active, shutdownCalls>>

\* ListenAndServe: if srv.shuttingDown() { return ErrServerClosed }
LASCheck(i) ==
    /\ bgPc[i] = "las_check"
    /\ IF inShutdown
         THEN /\ bgErr' = [bgErr EXCEPT ![i] = ErrServerClosed]
              /\ bgPc' = [bgPc EXCEPT ![i] = "las_ret"]
         ELSE /\ bgPc' = [bgPc EXCEPT ![i] = "las_listen"]
              /\ UNCHANGED bgErr
    /\ UNCHANGED reqVars
    /\ UNCHANGED <<ctxSource, ctxDone, sigCh, sigCount, watcherPc, runCount,
                   runPc, runResult, errCh, inShutdown, lnOpen, active,
                   elapsed, shutdownCalls>>

\* ListenAndServe: ln, err := net.Listen("tcp", addr); if err != nil { return err }
LASListen(i) ==
    /\ bgPc[i] = "las_listen"
    /\ \E ok \in BOOLEAN :
         IF ok
           THEN /\ lnOpen' = [lnOpen EXCEPT ![i] = TRUE]
                /\ bgPc' = [bgPc EXCEPT ![i] = "las_track"]
                /\ UNCHANGED bgErr
           ELSE /\ bgErr' = [bgErr EXCEPT ![i] = BindErr]
                /\ bgPc' = [bgPc EXCEPT ![i] = "las_ret"]
                /\ UNCHANGED lnOpen
    /\ UNCHANGED reqVars
    /\ UNCHANGED <<ctxSource, ctxDone, sigCh, sigCount, watcherPc, runCount,
                   runPc, runResult, errCh, inShutdown, active, elapsed,
                   shutdownCalls>>

\* Serve: defer l.Close(); if !srv.trackListener(&l, true) { return ErrServerClosed }
LASTrack(i) ==
    /\ bgPc[i] = "las_track"
    /\ IF inShutdown
         THEN /\ lnOpen' = [lnOpen EXCEPT ![i] = FALSE]
              /\ bgErr' = [bgErr EXCEPT ![i] = ErrServerClosed]
              /\ bgPc' = [bgPc EXCEPT ![i] = "las_ret"]
         ELSE /\ bgPc' = [bgPc EXCEPT ![i] = "serving"]
              /\ UNCHANGED <<lnOpen, bgErr>>
    /\ UNCHANGED reqVars
    /\ UNCHANGED <<ctxSource, ctxDone, sigCh, sigCount, watcherPc, runCount,
                   runPc, runResult, errCh, inShutdown, active, elapsed,
                   shutdownCalls>>

\* Serve's loop: l.Accept() hands over a connection, whose request starts.
Accept(i) ==
    /\ bgPc[i] = "serving"
    /\ lnOpen[i]
    /\ active < MaxConns
    /\ active' = active + 1
    /\ UNCHANGED reqVars
    /\ UNCHANGED <<ctxSource, ctxDone, sigCh, sigCount, watcherPc, runCount,
                   runPc, runResult, errCh, bgPc, bgErr, inShutdown, lnOpen,
                   elapsed, shutdownCalls>>

\* A request in flight completes (its handler returns); it need never do so.
HandlerDone ==
    /\ active > 0
    /\ active' = active - 1
    /\ UNCHANGED reqVars
    /\ UNCHANGED <<ctxSource, ctxDone, sigCh, sigCount, watcherPc, runCount,
                   runPc, runResult, errCh, bgPc, bgErr, inShutdown, lnOpen,
                   elapsed, shutdownCalls>>

\* Serve's loop: l.Accept() fails, because Shutdown closed the listener or
\* because the listener broke; if srv.shuttingDown() { return ErrServerClosed }
\* else return err. The deferred l.Close() closes the listener.
ServeStop(i) ==
    /\ bgPc[i] = "serving"
    /\ bgErr' = [bgErr EXCEPT ![i] = IF inShutdown THEN ErrServerClosed ELSE AcceptErr]
    /\ lnOpen' = [lnOpen EXCEPT ![i] = FALSE]
    /\ bgPc' = [bgPc EXCEPT ![i] = "las_ret"]
    /\ UNCHANGED reqVars
    /\ UNCHANGED <<ctxSource, ctxDone, sigCh, sigCount, watcherPc, runCount,
                   runPc, runResult, errCh, inShutdown, active, elapsed,
                   shutdownCalls>>

\* Faulty variant: http.ErrServerClosed is reported like any other error.
Reports_ServerClosedToo(err) == err # Nil

\* if err := ListenAndServe(); err != nil && err != http.ErrServerClosed { errCh <- err }
\* The send blocks while the channel's buffer is full.
Reports(err) == err # Nil /\ err # ErrServerClosed

\* Faulty variant: errCh is made without a buffer, so the send completes only
\* by handing the error to Run waiting in its select.
BgReturn_Unbuffered(i) ==
    /\ bgPc[i] = "las_ret"
    /\ IF Reports(bgErr[i])
         THEN /\ runPc = "select" /\ runCount = i
              /\ runResult' = Wrap("server error", bgErr[i])
              /\ runPc' = "returned"
         ELSE UNCHANGED <<runPc, runResult>>
    /\ bgPc' = [bgPc EXCEPT ![i] = "done"]
    /\ UNCHANGED reqVars
    /\ UNCHANGED <<ctxSource, ctxDone, sigCh, sigCount, watcherPc, runCount,
                   errCh, bgErr, inShutdown, lnOpen, active, elapsed,
                   shutdownCalls>>

BgReturn(i) ==
    /\ bgPc[i] = "las_ret"
    /\ IF Reports(bgErr[i])
         THEN /\ Len(errCh[i]) < ErrChCap
              /\ errCh' = [errCh EXCEPT ![i] = Append(@, bgErr[i])]
         ELSE UNCHANGED errCh
    /\ bgPc' = [bgPc EXCEPT ![i] = "done"]
    /\ UNCHANGED reqVars
    /\ UNCHANGED <<ctxSource, ctxDone, sigCh, sigCount, watcherPc, runCount,
                   runPc, runResult, bgErr, inShutdown, lnOpen, active,
                   elapsed, shutdownCalls>>

\* Faulty variant: the shutdown branch is taken without ctx being done.
RunSelectCtx_Unguarded ==
    /\ runPc = "select"
    /\ runPc' = "shutdown"
    /\ elapsed' = 0
    /\ UNCHANGED reqVars
    /\ UNCHANGED <<ctxSource, ctxDone, sigCh, sigCount, watcherPc, runCount,
                   runResult, errCh, bgPc, bgErr, inShutdown, lnOpen, active,
                   shutdownCalls>>

\* select { case <-ctx.Done(): ... shutCtx, cancel := context.WithTimeout(...)
\* When both cases are ready the runtime picks either.
RunSelectCtx ==
    /\ runPc = "select"
    /\ ctxDone
    /\ runPc' = "shutdown"
    /\ elapsed' = 0
    /\ UNCHANGED reqVars
    /\ UNCHANGED <<ctxSource, ctxDone, sigCh, sigCount, watcherPc, runCount,
                   runResult, errCh, bgPc, bgErr, inShutdown, lnOpen, active,
                   shutdownCalls>>

\* Faulty variant: the error branch shuts the server down before it returns.
RunSelectErr_AlsoShutsDown ==
    /\ runPc = "select"
    /\ Len(errCh[runCount]) > 0
    /\ runResult' = Wrap("server error", Head(errCh[runCount]))
    /\ errCh' = [errCh EXCEPT ![runCount] = Tail(@)]
    /\ inShutdown' = TRUE
    /\ shutdownCalls' = [shutdownCalls EXCEPT ![runCount] = @ + 1]
    /\ runPc' = "returned"
    /\ UNCHANGED reqVars
    /\ UNCHANGED <<ctxSource, ctxDone, sigCh, sigCount, watcherPc, runCount,
                   bgPc, bgErr, lnOpen, active, elapsed>>

\* select { case err := <-errCh: return fmt.Errorf("server error: %w", err) }
RunSelectErr ==
    /\ runPc = "select"
    /\ Len(errCh[runCount]) > 0
    /\ runResult' = Wrap("server error", Head(errCh[runCount]))
    /\ errCh' = [errCh EXCEPT ![runCount] = Tail(@)]
    /\ runPc' = "returned"
    /\ UNCHANGED reqVars
    /\ UNCHANGED <<ctxSource, ctxDone, sigCh, sigCount, watcherPc, runCount,
                   bgPc, bgErr, inShutdown, lnOpen, active, elapsed,
                   shutdownCalls>>

\* s.httpServer.Shutdown(shutCtx): srv.inShutdown.Store(true)
ShutdownStore ==
    /\ runPc = "shutdown"
    /\ inShutdown' = TRUE
    /\ shutdownCalls' = [shutdownCalls EXCEPT ![runCount] = @ + 1]
    /\ runPc' = "sd_close"
    /\ UNCHANGED reqVars
    /\ UNCHANGED <<ctxSource, ctxDone, sigCh, sigCount, watcherPc, runCount,
                   runResult, errCh, bgPc, bgErr, lnOpen, active, elapsed>>

\* Shutdown: srv.closeListenersLocked() closes the listeners Serve has tracked.
ShutdownCloseListeners ==
    /\ runPc = "sd_close"
    /\ lnOpen' = [i \in Runs |-> IF bgPc[i] = "serving" THEN FALSE ELSE lnOpen[i]]
    /\ runPc' = "sd_poll"
    /\ UNCHANGED reqVars
    /\ UNCHANGED <<ctxSource, ctxDone, sigCh, sigCount, watcherPc, runCount,
                   runResult, errCh, bgPc, bgErr, inShutdown, active, elapsed,
                   shutdownCalls>>

\* Faulty variant: the nil check of Shutdown's error is lost.
RunShutdownResult_AlwaysWraps(err) == Wrap("shutdown", err)

\* What Run returns for the error Shutdown returned:
\* if err := Shutdown(shutCtx); err != nil { return fmt.Errorf("shutdown: %w", err) }
\* ... return nil
RunShutdownResult(err) == IF err # Nil THEN Wrap("shutdown", err) ELSE Nil

\* Shutdown's loop: if srv.closeIdleConns() { return lnerr }: no connection has
\* a request in flight, Shutdown returns nil and so does Run.
ShutdownPoll ==
    /\ runPc = "sd_poll"
    /\ IF active = 0
         THEN /\ runResult' = RunShutdownResult(Nil)
              /\ runPc' = "returned"
         ELSE /\ runPc' = "sd_wait"
              /\ UNCHANGED runResult
    /\ UNCHANGED reqVars
    /\ UNCHANGED <<ctxSource, ctxDone, sigCh, sigCount, watcherPc, runCount,
                   errCh, bgPc, bgErr, inShutdown, lnOpen, active, elapsed,
                   shutdownCalls>>

\* Shutdown's loop: select { case <-timer.C: (poll again) }
ShutdownPollAgain ==
    /\ runPc = "sd_wait"
    /\ runPc' = "sd_poll"
    /\ UNCHANGED reqVars
    /\ UNCHANGED <<ctxSource, ctxDone, sigCh, sigCount, watcherPc, runCount,
                   runResult, errCh, bgPc, bgErr, inShutdown, lnOpen, active,
                   elapsed, shutdownCalls>>

\* Faulty variant: Shutdown is given a context without a deadline.
ShutdownTimedOut_NoDeadline ==
    /\ FALSE
    /\ UNCHANGED vars

\* Shutdown's loop: select { case <-ctx.Done(): return ctx.Err() }: shutCtx
\* has expired, Shutdown returns its error and Run wraps it.
ShutdownTimedOut ==
    /\ runPc = "sd_wait"
    /\ elapsed >= ShutdownTimeout
    /\ runResult' = RunShutdownResult(DeadlineExceeded)
    /\ runPc' = "returned"
    /\ UNCHANGED reqVars
    /\ UNCHANGED <<ctxSource, ctxDone, sigCh, sigCount, watcherPc, runCount,
                   errCh, bgPc, bgErr, inShutdown, lnOpen, active, elapsed,
                   shutdownCalls>>

\* Time passes while shutCtx is alive.
Tick ==
    /\ runPc \in {"shutdown", "sd_close", "sd_poll", "sd_wait"}
    /\ elapsed < ShutdownTimeout
    /\ elapsed' = elapsed + 1
    /\ UNCHANGED reqVars
    /\ UNCHANGED <<ctxSource, ctxDone, sigCh, sigCount, watcherPc, runCount,
                   runPc, runResult, errCh, bgPc, bgErr, inShutdown, lnOpen,
                   active, shutdownCalls>>

NextLife ==
    \/ \E s \in Signals : Signal(s)
    \/ WatcherRecv
    \/ WatcherCancel
    \/ CallerCancel
    \/ RunCall
    \/ \E i \in Runs : LASCheck(i)
    \/ \E i \in Runs : LASListen(i)
    \/ \E i \in Runs : LASTrack(i)
    \/ \E i \in Runs : Accept(i)
    \/ HandlerDone
    \/ \E i \in Runs : ServeStop(i)
    \/ \E i \in Runs : BgReturn(i)
    \/ RunSelectCtx
    \/ RunSelectErr
    \/ ShutdownStore
    \/ ShutdownCloseListeners
    \/ ShutdownPoll
    \/ ShutdownPollAgain
    \/ ShutdownTimedOut
    \/ Tick

\* =========================================================== request pipeline
\* The two requests in flight together.
Reqs == {1, 2}

\* Most calls (WriteHeader, Write) a handler makes on its ResponseWriter.
MaxOps == 2

\* ------------------------------------------------------------ http.Header
\* textproto.CanonicalMIMEHeaderKey, on the header names used here.
CanonicalHeaderKey(name) ==
    CASE name = "X-Correlation-ID" -> "X-Correlation-Id"
      [] name = "X-Custom-Request-ID" -> "X-Custom-Request-Id"
      [] OTHER -> name

\* An http.Header is a function from the canonical keys it holds to values.
EmptyHeader == [k \in {} |-> ""]

\* Header.Get(name): the value under the canonical key, "" when there is none.
HeaderGet(h, name) ==
    LET k == CanonicalHeaderKey(name)
    IN  IF k \in DOMAIN h THEN h[k] ELSE ""

\* Header.Set(name, value): replaces what the canonical key holds.
HeaderSet(h, name, value) ==
    LET k == CanonicalHeaderKey(name)
    IN  [x \in DOMAIN h \cup {k} |-> IF x = k THEN value ELSE h[x]]

\* ------------------------------------------------------- context.Context
\* The value a context holds under CorrelationIDKey, with its dynamic type.
NoValue == [type |-> "none", val |-> ""]
StringValue(s) == [type |-> "string", val |-> s]
IntValue == [type |-> "int", val |-> "12345"]

\* Faulty variant: the value is returned without the check of its type.
GetCorrID_NoTypeCheck(ctxVal) == ctxVal.val

\* if val, ok := ctx.Value(CorrelationIDKey).(string); ok { return val }; return ""
GetCorrID(ctxVal) == IF ctxVal.type = "string" THEN ctxVal.val ELSE ""

\* ------------------------------------------------------------- inputs
\* The header names the package variable is set to before serving.
HeaderNames == {"X-Correlation-ID", "X-Custom-Request-ID"}

\* Inbound requests: their headers and what their context already holds.
InHeaders ==
    { EmptyHeader,
      [k \in {"X-Correlation-Id"} |-> ""],
      [k \in {"X-Correlation-Id"} |-> "corr-A"],
      [k \in {"X-Custom-Request-Id"} |-> "custom-id-456"],
      [k \in {"X-Correlation-Id", "X-Custom-Request-Id"} |->
           IF k = "X-Correlation-Id" THEN "corr-A" ELSE "custom-id-456"] }

Arrivals ==
    { [hdr |-> h, ctx |-> NoValue] : h \in InHeaders }
    \cup { [hdr |-> EmptyHeader, ctx |-> c] : c \in {StringValue("test-corr-id"), IntValue} }

\* Request 1 draws from every arrival; request 2, the traffic beside it, comes
\* without the header, with it, or with the header under the other name.
ArrivalsOf(q) ==
    IF q = 1 THEN Arrivals
    ELSE { a \in Arrivals : a.ctx = NoValue /\ Cardinality(DOMAIN a.hdr) <= 1
                            /\ \A k \in DOMAIN a.hdr : a.hdr[k] # "" }

\* uuid.New().String(): the tokens it can return.
UUIDs == {"uuid-0001", "uuid-0002"}

\* The chain NewServer installs (RequestID and RealIP, which neither read nor
\* write anything modelled here, are left out), and the chains the package's
\* middleware is also composed into.
ServerChain == <<"CorrelationID", "Recoverer", "RequestLogger">>
Chains == { ServerChain,
            <<"CorrelationID", "RequestLogger">>,
            <<"CorrelationID">>,
            <<"RequestLogger">> }

\* What a handler does: calls on its ResponseWriter, then it returns or panics.
Statuses == {200, 404}
Ops == { [op |-> "WriteHeader", code |-> c, n |-> 0, ok |-> TRUE] : c \in Statuses }
        \cup { [op |-> "Write", code |-> 0, n |-> 13, ok |-> k] : k \in BOOLEAN }
Scripts == UNION { [1..n -> Ops] : n \in 0..MaxOps }
Endings == {"return", "panic", "abort"}

\* Request 1's handler runs any script; request 2's writes nothing or one body.
ScriptsOf(q) ==
    IF q = 1 THEN Scripts
    ELSE { ops \in Scripts : Len(ops) <= 1 /\ \A i \in 1..Len(ops) : ops[i].op = "Write" /\ ops[i].ok }
EndingsOf(q) == IF q = 1 THEN Endings ELSE {"return", "panic"}

\* ---------------------------------------------------- the response writers
\* sink: the server's ResponseWriter; ww: chi's WrapResponseWriter around it
\* (on = the handler writes through ww).
NewWriters == [ sink |-> [wroteHeader |-> FALSE, code |-> 0, bytes |-> 0],
                ww |-> [on |-> FALSE, wroteHeader |-> FALSE, code |-> 0, bytes |-> 0] ]

\* middleware.NewWrapResponseWriter(w, r.ProtoMajor)
NewWrapResponseWriter(w) ==
    [w EXCEPT !.ww = [on |-> TRUE, wroteHeader |-> FALSE, code |-> 0, bytes |-> 0]]

\* The server's WriteHeader: the first call decides the status.
SinkWriteHeader(w, code) ==
    IF w.sink.wroteHeader THEN w
    ELSE [w EXCEPT !.sink.wroteHeader = TRUE, !.sink.code = code]

\* The server's Write: writes the header with 200 if need be; n bytes go out,
\* or none when the write fails.
SinkWrite(w, n, ok) ==
    LET h == SinkWriteHeader(w, 200)
    IN  [h EXCEPT !.sink.bytes = @ + (IF ok THEN n ELSE 0)]

\* basicWriter.WriteHeader: records the first code and passes it on.
WrapWriteHeader(w, code) ==
    IF w.ww.wroteHeader THEN w
    ELSE SinkWriteHeader([w EXCEPT !.ww.wroteHeader = TRUE, !.ww.code = code], code)

\* basicWriter.Write: maybeWriteHeader(), then counts what the sink took.
WrapWrite(w, n, ok) ==
    LET h == WrapWriteHeader(w, 200)
        s == SinkWrite(h, n, ok)
    IN  [s EXCEPT !.ww.bytes = @ + (s.sink.bytes - h.sink.bytes)]

\* One call of the handler on the writer it was given.
ApplyOp(w, o) ==
    IF w.ww.on
      THEN IF o.op = "WriteHeader" THEN WrapWriteHeader(w, o.code)
           ELSE WrapWrite(w, o.n, o.ok)
      ELSE IF o.op = "WriteHeader" THEN SinkWriteHeader(w, o.code)
           ELSE SinkWrite(w, o.n, o.ok)

RECURSIVE ApplyOps(_, _)
ApplyOps(w, ops) ==
    IF ops = <<>> THEN w ELSE ApplyOps(ApplyOp(w, Head(ops)), Tail(ops))

\* ww.Status(), ww.BytesWritten()
Status(w) == w.ww.code
BytesWritten(w) == w.ww.bytes

\* ------------------------------------------- what the handler did (ghost)
\* The status the handler set itself: the code of its first call when that is
\* a WriteHeader, 0 when it wrote the body first or made no call.
ExplicitStatus(ops) ==
    IF ops # <<>> /\ Head(ops).op = "WriteHeader" THEN Head(ops).code ELSE 0

\* The body bytes the handler's Write calls got out.
RECURSIVE BytesSent(_)
BytesSent(ops) ==
    IF ops = <<>> THEN 0
    ELSE (IF Head(ops).op = "Write" /\ Head(ops).ok THEN Head(ops).n ELSE 0)
         + BytesSent(Tail(ops))

\* ------------------------------------------------------------------ Init
NewRequest ==
    [ pc |-> "new",          \* new, enter, handler, unwind, done, aborted
      idx |-> 0,             \* the stage being entered or unwound
      hdr |-> EmptyHeader,   \* r.Header
      ctx |-> NoValue,       \* r.Context().Value(CorrelationIDKey)
      respHdr |-> EmptyHeader, \* w.Header()
      w |-> NewWriters,
      generated |-> "",      \* the token uuid.New() made for this request
      seen |-> "",           \* GetCorrID as the handler saw it
      ran |-> FALSE,         \* the handler has run
      ended |-> "",          \* ghost: how the handler ended (return, panic, abort)
      panic |-> "",          \* the value being panicked with
      hStatus |-> 0,         \* ghost: ExplicitStatus of the handler's calls
      hBytes |-> 0,          \* ghost: BytesSent of the handler's calls
      hWrote |-> FALSE ]     \* ghost: the handler called Write

InitReq ==
    /\ CorrelationIDHeader \in HeaderNames
    /\ chain \in Chains
    /\ issued = {}
    /\ log = <<>>
    /\ req = [q \in Reqs |-> NewRequest]

\* The lifecycle while only requests are looked at, and the reverse.
LifeIdle == InitLife /\ ctxSource = "caller"
ReqIdle ==
    /\ CorrelationIDHeader = "X-Correlation-ID"
    /\ chain = ServerChain
    /\ issued = {}
    /\ log = <<>>
    /\ req = [q \in Reqs |-> NewRequest]

\* ---------------------------------------------------------------- actions
Stage(q) == IF req[q].idx \in 1..Len(chain) THEN chain[req[q].idx] ELSE "handler"

\* A request arrives and is handed to the outermost stage.
Arrive(q, a) ==
    /\ req[q].pc = "new"
    /\ req' = [req EXCEPT ![q].pc = "enter", ![q].idx = 1,
                          ![q].hdr = a.hdr, ![q].ctx = a.ctx]
    /\ UNCHANGED <<CorrelationIDHeader, chain, issued, log>>
    /\ UNCHANGED lifeVars

\* Faulty variant: the test of the header value is inverted.
CorrelationIDFor_Inverted(headerValue, fresh) ==
    IF headerValue # "" THEN fresh ELSE headerValue

\* Faulty variant: no token is made for a request without the header.
CorrelationIDFor_NeverGenerates(headerValue, fresh) == headerValue

\* correlationID := r.Header.Get(CorrelationIDHeader)
\* if correlationID == "" { correlationID = uuid.New().String() }
CorrelationIDFor(headerValue, fresh) ==
    IF headerValue = "" THEN fresh ELSE headerValue

\* Faulty variant: the response header is written under the default name.
EchoCorrelationID_DefaultName(h, correlationID) ==
    HeaderSet(h, "X-Correlation-ID", correlationID)

\* w.Header().Set(CorrelationIDHeader, correlationID)
EchoCorrelationID(h, correlationID) ==
    HeaderSet(h, CorrelationIDHeader, correlationID)

\* The CorrelationID middleware up to next.ServeHTTP(w, r). uuid.New() returns
\* a token it has not returned before.
CorrelationID(q) ==
    /\ req[q].pc = "enter"
    /\ Stage(q) = "CorrelationID"
    /\ LET headerValue == HeaderGet(req[q].hdr, CorrelationIDHeader)
       IN  \E fresh \in (IF headerValue = "" THEN UUIDs \ issued ELSE {""}) :
             LET correlationID == CorrelationIDFor(headerValue, fresh)
             IN  /\ issued' = IF headerValue = "" THEN issued \cup {fresh} ELSE issued
                 /\ req' = [req EXCEPT
                       ![q].generated = fresh,
                       ![q].ctx = StringValue(correlationID),
                       ![q].respHdr = EchoCorrelationID(@, correlationID),
                       ![q].idx = @ + 1]
    /\ UNCHANGED <<CorrelationIDHeader, chain, log>>
    /\ UNCHANGED lifeVars

\* chi's Recoverer: defer func() { ... }(); next.ServeHTTP(w, r)
Recoverer(q) ==
    /\ req[q].pc = "enter"
    /\ Stage(q) = "Recoverer"
    /\ req' = [req EXCEPT ![q].idx = @ + 1]
    /\ UNCHANGED <<CorrelationIDHeader, chain, issued, log>>
    /\ UNCHANGED lifeVars

\* Faulty variant: the next stage is given w, not the wrapper ww.
RequestLogger_PassesUnwrapped(q) ==
    /\ req[q].pc = "enter"
    /\ Stage(q) = "RequestLogger"
    /\ req' = [req EXCEPT ![q].idx = @ + 1]
    /\ UNCHANGED <<CorrelationIDHeader, chain, issued, log>>
    /\ UNCHANGED lifeVars

\* RequestLogger up to next.ServeHTTP(ww, r): start := time.Now();
\* ww := middleware.NewWrapResponseWriter(w, r.ProtoMajor)
RequestLogger(q) ==
    /\ req[q].pc = "enter"
    /\ Stage(q) = "RequestLogger"
    /\ req' = [req EXCEPT ![q].w = NewWrapResponseWriter(@), ![q].idx = @ + 1]
    /\ UNCHANGED <<CorrelationIDHeader, chain, issued, log>>
    /\ UNCHANGED lifeVars

\* The application's handler: it reads GetCorrID(r.Context()), makes its calls
\* on the writer it was given, and returns or panics.
Handler(q, ops, ending) ==
    /\ req[q].pc = "enter"
    /\ Stage(q) = "handler"
    /\ req' = [req EXCEPT
          ![q].seen = GetCorrID(req[q].ctx),
          ![q].w = ApplyOps(@, ops),
          ![q].ran = TRUE,
          ![q].ended = ending,
          ![q].panic = IF ending = "return" THEN "" ELSE ending,
          ![q].hStatus = ExplicitStatus(ops),
          ![q].hBytes = BytesSent(ops),
          ![q].hWrote = \E i \in 1..Len(ops) : ops[i].op = "Write",
          ![q].pc = "unwind",
          ![q].idx = Len(chain)]
    /\ UNCHANGED <<CorrelationIDHeader, chain, issued, log>>
    /\ UNCHANGED lifeVars

\* Faulty variant: the correlation ID is kept in one place shared by all requests.
LogRecord_SharedID(q, r) ==
    [ req |-> q,
      status |-> Status(r.w),
      bytes |-> BytesWritten(r.w),
      correlation_id |-> GetCorrID(req[3 - q].ctx) ]

\* Faulty variant: the status is not read from the wrapped writer.
LogRecord_FixedStatus(q, r) ==
    [ req |-> q,
      status |-> 200,
      bytes |-> BytesWritten(r.w),
      correlation_id |-> GetCorrID(r.ctx) ]

\* Faulty variant: the record's correlation_id is not taken from the context.
LogRecord_NoCorrelationID(q, r) ==
    [ req |-> q,
      status |-> Status(r.w),
      bytes |-> BytesWritten(r.w),
      correlation_id |-> "" ]

\* logger.Info("request", method, path, status, bytes, remote, correlation_id,
\* duration); the request stands for its method, path and remote address.
LogRecord(q, r) ==
    [ req |-> q,
      status |-> Status(r.w),
      bytes |-> BytesWritten(r.w),
      correlation_id |-> GetCorrID(r.ctx) ]

\* RequestLogger after next.ServeHTTP(ww, r) has returned.
LogRequest(q) ==
    /\ req[q].pc = "unwind"
    /\ Stage(q) = "RequestLogger"
    /\ req[q].panic = ""
    /\ log' = Append(log, LogRecord(q, req[q]))
    /\ req' = [req EXCEPT ![q].idx = @ - 1]
    /\ UNCHANGED <<CorrelationIDHeader, chain, issued>>
    /\ UNCHANGED lifeVars

\* A panic passes through RequestLogger, which defers nothing, and through
\* CorrelationID: the statements after next.ServeHTTP are not run.
PanicThrough(q) ==
    /\ req[q].pc = "unwind"
    /\ Stage(q) \in {"RequestLogger", "CorrelationID"}
    /\ req[q].panic # ""
    /\ req' = [req EXCEPT ![q].idx = @ - 1]
    /\ UNCHANGED <<CorrelationIDHeader, chain, issued, log>>
    /\ UNCHANGED lifeVars

\* Recoverer's deferred function: recover(); http.ErrAbortHandler is panicked
\* with again, anything else is answered with w.WriteHeader(500).
Recover(q) ==
    /\ req[q].pc = "unwind"
    /\ Stage(q) = "Recoverer"
    /\ req' = [req EXCEPT
          ![q].w = IF req[q].panic \in {"", "abort"} THEN @ ELSE SinkWriteHeader(@, 500),
          ![q].panic = IF @ = "abort" THEN @ ELSE "",
          ![q].idx = @ - 1]
    /\ UNCHANGED <<CorrelationIDHeader, chain, issued, log>>
    /\ UNCHANGED lifeVars

\* CorrelationID after next.ServeHTTP(w, r) has returned: nothing is left to do.
CorrelationIDReturn(q) ==
    /\ req[q].pc = "unwind"
    /\ Stage(q) = "CorrelationID"
    /\ req[q].panic = ""
    /\ req' = [req EXCEPT ![q].idx = @ - 1]
    /\ UNCHANGED <<CorrelationIDHeader, chain, issued, log>>
    /\ UNCHANGED lifeVars

\* The chain has returned to the server: it completes the response (status 200
\* if the header was never written); after a panic it drops the connection.
Finish(q) ==
    /\ req[q].pc = "unwind"
    /\ req[q].idx = 0
    /\ req' = [req EXCEPT
          ![q].pc = IF req[q].panic = "" THEN "done" ELSE "aborted",
          ![q].w = IF req[q].panic = "" THEN SinkWriteHeader(@, 200) ELSE @]
    /\ UNCHANGED <<CorrelationIDHeader, chain, issued, log>>
    /\ UNCHANGED lifeVars

NextReq ==
    \/ \E q \in Reqs : \E a \in ArrivalsOf(q) : Arrive(q, a)
    \/ \E q \in Reqs : CorrelationID(q)
    \/ \E q \in Reqs : Recoverer(q)
    \/ \E q \in Reqs : RequestLogger(q)
    \/ \E q \in Reqs : \E ops \in ScriptsOf(q), ending \in EndingsOf(q) : Handler(q, ops, ending)
    \/ \E q \in Reqs : LogRequest(q)
    \/ \E q \in Reqs : PanicThrough(q)
    \/ \E q \in Reqs : Recover(q)
    \/ \E q \in Reqs : CorrelationIDReturn(q)
    \/ \E q \in Reqs : Finish(q)

\* ======================================================== specifications
Init == InitLife /\ ReqIdle
Next == NextLife
Spec == Init /\ [][Next]_vars

\* The scheduler runs every goroutine that can take a step, time passes, a
\* select whose case stays ready is not passed over for ever, and Accept on a
\* listener that was closed returns.
FairSpec ==
    /\ Spec
    /\ WF_vars(WatcherRecv)
    /\ WF_vars(WatcherCancel)
    /\ WF_vars(RunSelectCtx \/ RunSelectErr)
    /\ WF_vars(ShutdownStore)
    /\ WF_vars(ShutdownCloseListeners)
    /\ WF_vars(ShutdownPoll)
    /\ WF_vars(ShutdownPollAgain \/ ShutdownTimedOut)
    /\ SF_vars(ShutdownTimedOut)
    /\ WF_vars(Tick)
    /\ \A i \in Runs : WF_vars(LASCheck(i)) /\ WF_vars(LASListen(i))
                       /\ WF_vars(LASTrack(i)) /\ WF_vars(BgReturn(i))
                       /\ WF_vars(ServeStop(i) /\ ~lnOpen[i])

\* The request pipeline on its own.
InitPipeline == InitReq /\ LifeIdle
SpecReq == InitPipeline /\ [][NextReq]_vars

\* ================================================================ claims
\* ---- lifecycle (Spec, FairSpec)

\* The goroutine of the current Run call has reported a terminal error.
ListenerFailed == runCount > 0 /\ Reports(bgErr[runCount])

\* Run returns on this step.
RunReturns == runPc # "returned" /\ runPc' = "returned"

\* C1: whenever the listening goroutine has reported a terminal error (one
\* other than ErrServerClosed; it sits in errCh), what Run returns is that
\* error wrapped as "server error", whether or not ctx is done by then.
C1_ListenerErrorAlwaysSurfaces ==
    [][ (RunReturns /\ runCount > 0 /\ Len(errCh[runCount]) > 0)
          => runResult' = Wrap("server error", Head(errCh[runCount])) ]_vars

\* C2: when the listener has not failed, ctx is done, no request is in flight
\* any more and shutCtx has not expired, the value Run returns is nil.
C2_CancelledAndDrainedReturnsNil ==
    [][ (RunReturns /\ ctxDone /\ ~ListenerFailed
           /\ active = 0 /\ elapsed < ShutdownTimeout)
          => runResult' = Nil ]_vars

\* C2's case: Run has returned nil after ctx was cancelled while the listener
\* was serving (the listener was closed by Shutdown).
C2_Witness ==
    /\ runPc = "returned" /\ runCount = 1 /\ runResult = Nil /\ ctxDone
    /\ bgErr[1] = ErrServerClosed /\ bgPc[1] = "done" /\ shutdownCalls[1] = 1
    /\ elapsed > 0 /\ elapsed < ShutdownTimeout

\* C3: once ctx is done while Run waits in its select, Run returns, also when
\* a request in flight never completes; a return from Shutdown with a request
\* still in flight is the error "shutdown: context deadline exceeded", and it
\* comes when the 5 units of shutCtx have passed, not before.
C3_ReturnsByShutdownTimeout ==
    /\ ((runPc = "select" /\ ctxDone) ~> (runPc = "returned"))
    /\ [][ (RunReturns /\ runPc \in {"sd_poll", "sd_wait"} /\ active > 0)
             => /\ runResult' = Wrap("shutdown", DeadlineExceeded)
                /\ elapsed = ShutdownTimeout ]_vars

\* C3's case: Run has returned the shutdown error with a request in flight.
C3_Witness ==
    /\ runPc = "returned" /\ runResult = Wrap("shutdown", DeadlineExceeded)
    /\ active > 0 /\ elapsed = ShutdownTimeout /\ ctxDone

\* C4: the context of WaitForSignal is not done before the process has
\* received a signal, is done at some time after the first one, and once done
\* stays done whatever further signals arrive.
C4_SignalContextFiresOnce ==
    /\ [](ctxSource = "signal" /\ sigCount = 0 => ~ctxDone)
    /\ ((ctxSource = "signal" /\ sigCount > 0) ~> ctxDone)
    /\ [][ (ctxSource = "signal" /\ ctxDone) => ctxDone' ]_vars

\* C4's case: the context is done and a second signal has arrived since.
C4_Witness ==
    /\ ctxSource = "signal" /\ ctxDone /\ watcherPc = "done"
    /\ sigCount = 2 /\ Len(sigCh) = 1

\* ---- request pipeline (SpecReq)

\* The place of the CorrelationID stage in the chain, 0 when it has none.
CorrPos == IF \E i \in 1..Len(chain) : chain[i] = "CorrelationID"
           THEN CHOOSE i \in 1..Len(chain) : chain[i] = "CorrelationID" ELSE 0

\* Request q has gone through CorrelationID, up to its call of next.
Propagated(q) ==
    /\ CorrPos > 0
    /\ req[q].pc # "new"
    /\ req[q].pc = "enter" => req[q].idx > CorrPos

\* What the request carries in the configured header.
InboundID(q) == HeaderGet(req[q].hdr, CorrelationIDHeader)
\* What the response carries in the configured header.
OutboundID(q) == HeaderGet(req[q].respHdr, CorrelationIDHeader)
\* The records the logger has emitted for request q.
RecordsOf(q) == { i \in 1..Len(log) : log[i].req = q }

\* C5: a request that carries a non-empty value in the configured header gets
\* exactly that value from GetCorrID (also as its handler saw it) and in the
\* response's header, and no token was generated for it.
C5_PropagatesInboundID ==
    /\ \A q \in Reqs :
         (Propagated(q) /\ InboundID(q) # "") =>
            /\ GetCorrID(req[q].ctx) = InboundID(q)
            /\ OutboundID(q) = InboundID(q)
            /\ req[q].ran => req[q].seen = InboundID(q)
            /\ req[q].generated = ""
    /\ issued = { req[q].generated : q \in Reqs } \ {""}

\* C5's case: request 1 came with corr-A and its handler has run.
C5_Witness ==
    /\ Propagated(1) /\ InboundID(1) = "corr-A" /\ req[1].ran
    /\ req[1].seen = "corr-A" /\ req[1].pc = "done"

\* C6: a request whose configured header is absent or empty gets a generated,
\* non-empty token no other request got, and that token is what GetCorrID
\* returns (also to its handler) and what the response's header holds.
C6_GeneratesFreshID ==
    \A q \in Reqs :
      (Propagated(q) /\ InboundID(q) = "") =>
         /\ req[q].generated \in UUIDs
         /\ req[q].generated # ""
         /\ \A p \in Reqs \ {q} : req[p].generated # req[q].generated
         /\ GetCorrID(req[q].ctx) = req[q].generated
         /\ OutboundID(q) = req[q].generated
         /\ req[q].ran => req[q].seen = req[q].generated

\* C6's case: both requests came without the header (one with it empty) and
\* both handlers have run.
C6_Witness ==
    /\ Propagated(1) /\ Propagated(2)
    /\ "X-Correlation-Id" \in DOMAIN req[1].hdr /\ InboundID(1) = "" /\ InboundID(2) = ""
    /\ req[1].ran /\ req[2].ran /\ req[1].generated # "" /\ req[2].generated # ""

\* The ID that belongs to request q.
OwnID(q) == IF InboundID(q) # "" THEN InboundID(q) ELSE req[q].generated

\* C7: with two requests going through the chain at once, what the handler of
\* each saw, what its response header holds and what its log record holds is
\* that request's own ID, and so never the other's when the two differ.
C7_NoCrossRequestLeak ==
    \A q \in Reqs :
      Propagated(q) =>
         /\ req[q].ran => req[q].seen = OwnID(q)
         /\ OutboundID(q) = OwnID(q)
         /\ \A i \in RecordsOf(q) : log[i].correlation_id = OwnID(q)
         /\ \A p \in Reqs \ {q} :
              (Propagated(p) /\ OwnID(p) # OwnID(q)) =>
                 /\ req[q].ran => req[q].seen # OwnID(p)
                 /\ OutboundID(q) # OwnID(p)
                 /\ \A i \in RecordsOf(q) : log[i].correlation_id # OwnID(p)

\* C7's case: request 1 carries corr-A, request 2 no header; both are between
\* handler and completion at once, request 2 logged and request 1 not yet.
C7_Witness ==
    /\ "RequestLogger" \in {chain[i] : i \in 1..Len(chain)}
    /\ Propagated(1) /\ Propagated(2)
    /\ InboundID(1) = "corr-A" /\ req[2].hdr = EmptyHeader
    /\ req[1].pc = "unwind" /\ req[2].pc = "unwind"
    /\ req[1].ran /\ req[2].ran
    /\ RecordsOf(2) # {} /\ RecordsOf(1) = {}

\* C8: with CorrelationIDHeader set to X-Custom-Request-ID the inbound ID is
\* read from that header alone (a value under X-Correlation-ID is not taken)
\* and the ID is written to that header alone.
C8_CustomHeaderOnly ==
    CorrelationIDHeader = "X-Custom-Request-ID" =>
      \A q \in Reqs :
        Propagated(q) =>
          LET custom == IF "X-Custom-Request-Id" \in DOMAIN req[q].hdr
                        THEN req[q].hdr["X-Custom-Request-Id"] ELSE ""
          IN  /\ GetCorrID(req[q].ctx) = IF custom # "" THEN custom ELSE req[q].generated
              /\ custom = "" => req[q].generated \in UUIDs
              /\ DOMAIN req[q].respHdr = {"X-Custom-Request-Id"}
              /\ req[q].respHdr["X-Custom-Request-Id"] = GetCorrID(req[q].ctx)

\* C8's case: the custom name is configured and request 1 carries corr-A under
\* the default name only.
C8_Witness ==
    /\ CorrelationIDHeader = "X-Custom-Request-ID"
    /\ Propagated(1)
    /\ DOMAIN req[1].hdr = {"X-Correlation-Id"} /\ req[1].hdr["X-Correlation-Id"] = "corr-A"
    /\ req[1].ran /\ req[1].seen \in UUIDs

\* C9: a log record exists only for a request whose handler has returned, its
\* bytes are the body bytes the handler's writes got out, and its status is
\* the status the handler set (200 when the handler wrote the body without
\* setting one), which is the status of the response.
C9_LogReflectsFinalResponse ==
    \A i \in 1..Len(log) :
      LET q == log[i].req
      IN  /\ req[q].ran /\ req[q].panic = "" /\ req[q].pc \in {"unwind", "done"}
          /\ log[i].bytes = req[q].hBytes
          /\ log[i].bytes = req[q].w.sink.bytes
          /\ req[q].hStatus # 0 => log[i].status = req[q].hStatus
          /\ (req[q].hStatus = 0 /\ req[q].hWrote) => log[i].status = 200
          /\ (req[q].hStatus # 0 \/ req[q].hWrote) => log[i].status = req[q].w.sink.code

\* C9's case: the handler set 404 and wrote 13 bytes; the request is complete.
C9_Witness ==
    /\ req[1].pc = "done" /\ req[1].hStatus = 404 /\ req[1].hBytes = 13
    /\ \E i \in RecordsOf(1) : log[i].status = 404 /\ log[i].bytes = 13

\* C10: a request that went through the chain NewServer installs has exactly
\* one log record once it is over, whatever its handler did.
C10_ExactlyOneRecordPerRequest ==
    \A q \in Reqs :
      (chain = ServerChain /\ req[q].pc \in {"done", "aborted"})
         => Cardinality(RecordsOf(q)) = 1

\* C11: every log record has a correlation_id field and it holds what GetCorrID
\* gives for the context its request had at RequestLogger. With CorrelationID
\* earlier in the chain that is the request's own ID, which the response header
\* held before the next stage ran and which the handler saw; with no
\* CorrelationID in the chain it is the string the context came with, and the
\* empty string when the context came with no value or with one of another type.
C11_LogIDIsContextID ==
    /\ \A q \in Reqs :
         Propagated(q) =>
            /\ OutboundID(q) = GetCorrID(req[q].ctx)
            /\ GetCorrID(req[q].ctx) = OwnID(q)
    /\ \A i \in 1..Len(log) :
         LET q == log[i].req
         IN  /\ "correlation_id" \in DOMAIN log[i]
             /\ log[i].correlation_id = GetCorrID(req[q].ctx)
             /\ log[i].correlation_id = req[q].seen
             /\ CorrPos > 0 =>
                  /\ CorrPos < CHOOSE j \in 1..Len(chain) : chain[j] = "RequestLogger"
                  /\ log[i].correlation_id = OutboundID(q)
                  /\ log[i].correlation_id = OwnID(q)
                  /\ log[i].correlation_id # ""
             /\ CorrPos = 0 =>
                  /\ req[q].ctx.type = "string" => log[i].correlation_id = req[q].ctx.val
                  /\ req[q].ctx.type # "string" => log[i].correlation_id = ""

\* C11's case: CorrelationID generated request 1's ID and RequestLogger has
\* logged it, the same the handler saw and the response header holds.
C11_Witness ==
    /\ CorrPos > 0 /\ req[1].generated \in UUIDs /\ req[1].ran
    /\ \E i \in RecordsOf(1) :
         /\ log[i].correlation_id = req[1].generated
         /\ log[i].correlation_id = req[1].seen
         /\ log[i].correlation_id = OutboundID(1)

\* C12: GetCorrID gives a string for every context: the stored value when the
\* context holds a string under CorrelationIDKey, and the empty string when it
\* holds nothing there or a value that is not a string (the int 12345).
C12_GetCorrIDTotal ==
    \A q \in Reqs :
      req[q].ran =>
         /\ req[q].ctx.type \in {"none", "string", "int"}
         /\ req[q].ctx.type = "string" => req[q].seen = req[q].ctx.val
         /\ req[q].ctx.type = "none" => req[q].seen = ""
         /\ req[q].ctx.type = "int" => req[q].seen = ""
         /\ req[q].ctx = StringValue("") => req[q].seen = ""

\* C12's case: a handler has called GetCorrID on a context that holds the int
\* 12345 under the key and got the empty string.
C12_Witness ==
    /\ req[1].ran /\ req[1].ctx = IntValue /\ req[1].seen = ""
    /\ req[1].pc = "done"

\* C17: the status of a log record is 200 when the handler's first call on its
\* writer was a body write (also one that failed, also when it called
\* WriteHeader afterwards), and the code of the handler's first WriteHeader
\* when that came first (404 stays 404, with or without a body); the record
\* holds 0 only for a handler that made no call on the writer at all.
C17_StatusDefaultsTo200 ==
    \A i \in 1..Len(log) :
      LET q == log[i].req
          calledNothing == req[q].hStatus = 0 /\ ~req[q].hWrote
      IN  /\ (req[q].hStatus = 0 /\ req[q].hWrote) => log[i].status = 200
          /\ req[q].hStatus \in Statuses => log[i].status = req[q].hStatus
          /\ log[i].status \in Statuses \cup {0}
          /\ log[i].status = 0 <=> calledNothing

\* C17's case: request 1's handler wrote its body without setting a status
\* and the record says 200.
C17_Witness ==
    /\ req[1].hStatus = 0 /\ req[1].hWrote /\ req[1].hBytes = 13
    /\ req[1].w.ww.code = 200
    /\ \E i \in RecordsOf(1) : log[i].status = 200 /\ log[i].bytes = 13

\* ---- lifecycle, continued (Spec, FairSpec)

\* Run has returned what its errCh branch returns.
ReturnedServerError ==
    runPc = "returned" /\ Len(runResult) > 0 /\ Head(runResult) = "server error"

\* Run has returned what its ctx.Done() branch returns.
ReturnedFromShutdown ==
    runPc = "returned" /\ (runResult = Nil \/ Head(runResult) = "shutdown")

\* C13: a call of Run calls Shutdown at most once: not before its select has
\* taken the ctx.Done() branch, once when it has, and not at all when it has
\* taken the errCh branch; what it returns is the result of one branch only.
C13_OneBranchTakesEffect ==
    /\ \A i \in Runs : shutdownCalls[i] <= 1 /\ (i > runCount => shutdownCalls[i] = 0)
    /\ runPc \in {"select", "shutdown"} => shutdownCalls[runCount] = 0
    /\ runPc \in {"sd_close", "sd_poll", "sd_wait"} => shutdownCalls[runCount] = 1 /\ ctxDone
    /\ runPc = "returned" =>
         /\ ReturnedServerError \/ ReturnedFromShutdown
         /\ ~(ReturnedServerError /\ ReturnedFromShutdown)
         /\ ReturnedServerError => shutdownCalls[runCount] = 0
         /\ ReturnedFromShutdown => shutdownCalls[runCount] = 1 /\ ctxDone

\* C13's case: the first call of Run returned the listener's error without a
\* Shutdown; the second had both branches ready (the error sits in errCh) and
\* has returned through the ctx.Done() branch after one Shutdown.
C13_Witness ==
    /\ runCount = 2 /\ runPc = "returned" /\ runResult = Nil
    /\ shutdownCalls[1] = 0 /\ shutdownCalls[2] = 1
    /\ bgErr[1] = BindErr /\ Len(errCh[2]) = 1

\* C14: the goroutine Run started is never held up at its send on errCh: when
\* ListenAndServe has returned, its next step (the send, or nothing for nil and
\* ErrServerClosed) can be taken, and it ends; and once Shutdown has been
\* called every goroutine started ends, also when Run has returned by then.
C14_SendNeverBlocks ==
    /\ [](\A i \in Runs : bgPc[i] = "las_ret" => ENABLED BgReturn(i))
    /\ \A i \in Runs :
         (bgPc[i] = "las_ret" \/ (inShutdown /\ bgPc[i] # "unborn"))
            ~> (bgPc[i] = "done")

\* C14's case: Run has returned nil through the ctx.Done() branch, and its
\* goroutine has ended after sending the bind error nobody will receive.
C14_Witness ==
    /\ runCount = 1 /\ runPc = "returned" /\ runResult = Nil
    /\ shutdownCalls[1] = 1 /\ bgPc[1] = "done"
    /\ bgErr[1] = BindErr /\ errCh[1] = <<BindErr>>

\* The lifecycle state of the Server, read off the place Run is at: Idle until
\* Run is called, Running while Run waits in its select with the goroutine
\* started, ShuttingDown from the ctx.Done() branch until Shutdown returns,
\* Stopped when Run has returned.
LifecycleState ==
    CASE runPc = "idle" -> "Idle"
      [] runPc = "select" -> "Running"
      [] runPc \in {"shutdown", "sd_close", "sd_poll", "sd_wait"} -> "ShuttingDown"
      [] runPc = "returned" -> "Stopped"

\* The lifecycle state changes from s to t on this step.
Moves(s, t) == LifecycleState = s /\ LifecycleState' = t

\* The changes of state within one call of Run.
RunMoves ==
    \/ Moves("Idle", "Running")
    \/ Moves("Running", "ShuttingDown") /\ ctxDone
    \/ Moves("ShuttingDown", "Stopped")
    \/ Moves("Running", "Stopped") /\ ListenerFailed

\* C15 as stated: the state changes only Idle -> Running -> ShuttingDown ->
\* Stopped or Running -> Stopped on a failure of the listener, ShuttingDown is
\* entered only with ctx done, and Stopped is never left.
C15_StoppedIsFinal ==
    [][ LifecycleState' # LifecycleState => RunMoves ]_vars

\* C15, amended: the state changes only along those steps while a call of Run
\* lasts, and Stopped is left only by a further call of Run on the same
\* Server, which makes it Running again.
C15_LifecycleOrder ==
    [][ LifecycleState' # LifecycleState =>
          \/ RunMoves
          \/ Moves("Stopped", "Running") /\ runCount' = runCount + 1 ]_vars

\* C15's case: after a first call of Run that shut the server down and
\* returned, a second call is shutting it down again.
C15_Witness ==
    /\ runCount = 2 /\ shutdownCalls[1] = 1
    /\ LifecycleState = "ShuttingDown" /\ ctxDone

\* C16: when Run has returned the error of a Shutdown that ran out of time, no
\* request handler is executing any more.
C16_TimeoutEndsHandlers ==
    (runPc = "returned" /\ runResult = Wrap("shutdown", DeadlineExceeded))
       => active = 0

\* C18: when Run has returned nil, ctx is done and Run's one call of Shutdown
\* has returned nil (the server is shut down, no request in flight); and while
\* ctx is not done, a Run whose goroutine has ended with ErrServerClosed has no
\* step to take: it stays in its select.
C18_NilOnlyThroughCancellation ==
    /\ (runPc = "returned" /\ runResult = Nil) =>
          /\ ctxDone
          /\ shutdownCalls[runCount] = 1
          /\ inShutdown
          /\ active = 0
    /\ (/\ runPc = "select" /\ ~ctxDone
        /\ bgPc[runCount] = "done" /\ bgErr[runCount] = ErrServerClosed) =>
          /\ errCh[runCount] = <<>>
          /\ ~ENABLED (RunSelectCtx \/ RunSelectErr)

\* C18's case: the goroutine of a second call of Run has ended with
\* ErrServerClosed on the server the first call shut down; ctx is live and Run
\* waits in its select.
C18_Witness ==
    /\ runCount = 2 /\ runPc = "select" /\ ~ctxDone
    /\ bgPc[2] = "done" /\ bgErr[2] = ErrServerClosed
    /\ shutdownCalls[1] = 1 /\ inShutdown

\* C19: once a call of Run has returned through its ctx.Done() branch (it has
\* called Shutdown), no listener of the server is open, whatever the goroutine
\* was doing when Shutdown was called.
C19_NoListenerAfterShutdown ==
    (runPc = "returned" /\ shutdownCalls[runCount] = 1)
       => \A i \in Runs : ~lnOpen[i]

\* An earlier call of Run has called Shutdown on this Server.
EarlierRunShutDown == runCount >= 2 /\ \E j \in 1..(runCount - 1) : shutdownCalls[j] = 1

\* C20: in a call of Run that follows one that shut the server down, the
\* goroutine's ListenAndServe returns ErrServerClosed without listening, the
\* error is not sent, no request is accepted, and when Run has returned its
\* ctx is done and what it returned is nil.
C20_SecondRunReturnsNil ==
    EarlierRunShutDown =>
       /\ bgPc[runCount] \in {"las_check", "las_ret", "done"}
       /\ bgErr[runCount] \in {Nil, ErrServerClosed}
       /\ errCh[runCount] = <<>>
       /\ ~lnOpen[runCount]
       /\ runPc = "returned" => ctxDone /\ runResult = Nil

====
